---- MODULE Spec2Model ----
(***************************************************************************)
(* Grass field: instance placement (createGrassInstances / computeInit),   *)
(* the GrassSystem life cycle (constructor, init, frames), two independent *)
(* placement runs, the blade geometry and the wind vertex shader, modelled *)
(* from src/CLAUDE-PLAN.md; GameLoop from src/src/core.                    *)
(*                                                                         *)
(* Numbers: a Float32 value v is the integer round-down of v * Scale       *)
(* (fixed point, three decimals).  Angles handed to sin are reduced modulo *)
(* 2*pi at AngleScale (five decimals) before the series is evaluated.      *)
(***************************************************************************)
EXTENDS Integers, Sequences, FiniteSets, TLC

VARIABLES
    phase,          \* "none" | "built" | "failed": outcome of new GrassSystem(count, fieldSize)
    count,          \* constructor argument count
    fieldSize,      \* constructor argument fieldSize
    instanceBuffer, \* slot -> vec4 (x, z, rotation, height), zero-filled by Float32Array
    writers,        \* slot -> set of compute invocations that assigned it (history)
    initCalls,      \* number of GrassSystem.init calls made
    queued,         \* computeAsync dispatches submitted and not yet started
    running,        \* a dispatch of computeInit is executing
    pending,        \* invocations of the executing dispatch that have not run yet
    dispatched,     \* number of dispatches of computeInit started
    passes,         \* number of dispatches completed (init promises resolved)
    frames,         \* number of frames rendered with the grass mesh
    time,           \* the elapsed-time uniform read by the vertex shader
    runCount,       \* two-run scenario: count of both runs
    runField,       \* two-run scenario: fieldSize of both runs
    runBuffer,      \* two-run scenario: run -> instance buffer
    runPending,     \* two-run scenario: run -> invocations not yet run
    runStamp,       \* two-run scenario: run -> wall clock at its last write
    clock,          \* two-run scenario: wall clock
    segments,       \* createBladeGeometry argument
    bladeI,         \* createBladeGeometry loop counter i
    vertices,       \* createBladeGeometry: vertices, as a sequence of <<x, y, z>>
    uvs,            \* createBladeGeometry: uvs, as a sequence of <<u, v>>
    indices,        \* createBladeGeometry: indices (vertex numbers from 0)
    windInst,       \* the instance record the vertex shader reads
    windStrength,   \* the windStrength uniform
    charPos,        \* the charPos uniform (actor position in the field plane)
    shaderFrames,   \* execution -> frames drawn
    shaderTime,     \* execution -> elapsed time in ticks
    windOffset,     \* execution -> per vertex, windOffset of the last frame
    worldPos,       \* execution -> per vertex, worldPos of the last frame
    distToChar,     \* execution -> distToChar of the last frame
    pushStrength,   \* execution -> pushStrength of the last frame
    totalDisplacement, \* execution -> per vertex, totalDisplacement of the last frame
    callbacks,      \* GameLoop.callbacks, as a sequence of callback names
    loopClock,      \* GameLoop.clock: [running, oldTime, elapsedTime] of THREE.Clock
    now,            \* performance.now()
    ticks,          \* number of GameLoop.tick calls started
    tickPos,        \* forEach position in callbacks (0: no tick under way)
    tickLen,        \* length of callbacks when forEach started
    delta,          \* const delta of the current (or last) tick
    elapsed,        \* const elapsed of the current (or last) tick
    calls,          \* history: the argument every callback invocation received
    cameraPosition, \* LOD: camera.position
    grassCenter,    \* LOD: centre of the tile
    distToCamera,   \* LOD: distToCamera of the last frame
    highVisible,    \* LOD: highDetailGrass.visible
    lowVisible,     \* LOD: lowDetailGrass.visible
    lodFrames,      \* LOD: frames whose render loop body has run
    lodPrev,        \* LOD history: highDetailGrass.visible before the last frame
    keys,           \* InputManager.keys: the codes of the keys held
    states,         \* AnimationStateMachine.states: name -> state object (0: none)
    stateObjects,   \* number of state objects constructed so far
    current,        \* AnimationStateMachine.current: a state object or Null
    setStateCalls,  \* history: number of setState calls made
    requested,      \* history: the name handed to the last setState call
    enterCount,     \* history: number of enter calls made
    lastEnter,      \* history: receiver and argument of the last enter call
    updates,        \* history: number of AnimationStateMachine.update calls
    mouseDelta,     \* InputManager.mouseDelta, as <<x, y>>
    addCalls,       \* history: number of addMouseDelta calls
    getCalls,       \* history: number of getMouseDelta calls
    addedTotal,     \* history: sum of all deltas added
    addedSince,     \* history: sum of the deltas added since the last getMouseDelta
    returnedTotal,  \* history: sum of all deltas returned
    lastReturned,   \* history: the delta returned by the last getMouseDelta
    position,       \* Character.model.position in the ground plane, as <<x, z>>
    camForward,     \* ThirdPersonCamera.getForwardDirection(), as <<x, z>>
    targetRotation, \* CharacterController.targetRotation: the direction it faces
    charFrames,     \* history: number of Character.update calls
    charDelta,      \* history: delta of the last Character.update
    scene,          \* the scene component mounted: "none" | "grass" | "character"
    initPc,         \* its asynchronous initialisation: "none" | "init" | "load" |
                    \* "loaded" | "done" | "failed"
    rendererReady,  \* renderer.init() has resolved
    targetSet,      \* thirdPersonCamera.setTarget has been called
    cleaned,        \* the cleanup function of the effect has run
    disposed,       \* renderer.dispose() has been called
    animationId,    \* let animationId (0: undefined)
    rafPending,     \* the frame request waiting to run (0: none)
    rafIds,         \* number of frame requests made
    renders,        \* history: number of renderer.render calls
    target,         \* ThirdPersonCamera.target ("null" | "model")
    theta,          \* horizontal angle, at AngleScale
    phi,            \* vertical angle, at AngleScale
    camera,         \* camera.position
    currentPosition, \* the smoothed position
    camUpdates,     \* history: number of ThirdPersonCamera.update calls
    initialized,    \* InputManager.initialized
    keydownListeners, \* keydown listeners the manager has on window
    keyupListeners, \* keyup listeners the manager has on window
    inputInitCalls, \* history: number of init() calls
    keyEvents,      \* history: number of key events on window
    lastEvent,      \* history: the last event of each key code
    sinceInit,      \* history: the last event of each key code since init()
    keyOps          \* history: keys.add / keys.delete calls of the last event

grassVars == <<phase, count, fieldSize, instanceBuffer, writers, initCalls,
               queued, running, pending, dispatched, passes, frames, time>>
runVars == <<runCount, runField, runBuffer, runPending, runStamp, clock>>
bladeVars == <<segments, bladeI, vertices, uvs, indices>>
shaderVars == <<windInst, windStrength, charPos, shaderFrames, shaderTime,
                windOffset, worldPos, distToChar, pushStrength, totalDisplacement>>
windVars == <<bladeVars, shaderVars>>
loopVars == <<callbacks, loopClock, now, ticks, tickPos, tickLen, delta, elapsed, calls>>
lodVars == <<cameraPosition, grassCenter, distToCamera, highVisible, lowVisible,
             lodFrames, lodPrev>>
animVars == <<keys, states, stateObjects, current, setStateCalls, requested,
              enterCount, lastEnter, updates>>
mouseVars == <<mouseDelta, addCalls, getCalls, addedTotal, addedSince,
               returnedTotal, lastReturned>>
charVars == <<position, camForward, targetRotation, charFrames, charDelta>>
sceneVars == <<scene, initPc, rendererReady, targetSet, cleaned, disposed,
               animationId, rafPending, rafIds, renders>>
camVars == <<target, theta, phi, camera, currentPosition, camUpdates>>
inputVars == <<initialized, keydownListeners, keyupListeners, inputInitCalls,
               keyEvents, lastEvent, sinceInit, keyOps>>
vars == <<grassVars, runVars, windVars, loopVars, lodVars, animVars, mouseVars,
          charVars, sceneVars, camVars, inputVars>>

----------------------------------------------------------------------------
(* Bounds *)

MaxCount == 5
MaxInitCalls == 2
MaxFrames == 2
MaxTime == 2
MaxRunCount == 4
MaxClock == 2

Counts == -1 .. MaxCount
FieldSizes == {-2, 0, 2, 4}
RunCounts == 0 .. MaxRunCount
RunFields == {2, 3}
Runs == {1, 2}

----------------------------------------------------------------------------
(* Float32 arithmetic in fixed point *)

Scale == 1000
AngleScale == 100000
TwoPi == 628319
HashK1 == 1271
HashK2 == 2695
HeightMin == 300
HeightRange == 400

\* Float32 product, rounded toward zero so that it is symmetric in sign
Mul(a, b) ==
    LET p == a * b
    IN IF p >= 0 THEN p \div Scale ELSE -((-p) \div Scale)

RECURSIVE SqrtSearch(_, _, _)
SqrtSearch(n, lo, hi) ==
    IF lo >= hi THEN lo
    ELSE LET mid == (lo + hi + 1) \div 2
         IN IF mid * mid <= n THEN SqrtSearch(n, mid, hi)
            ELSE SqrtSearch(n, lo, mid - 1)

\* Math.sqrt(n) for n >= 0, in fixed point
Sqrt(n) == SqrtSearch(n * Scale * Scale, 0, (n + 1) * Scale)

\* sin on [-pi/2, pi/2], argument and result in fixed point
SinSeries(y) ==
    LET y2 == (y * y) \div Scale
        y3 == (y2 * y) \div Scale
        y5 == (y3 * y2) \div Scale
        y7 == (y5 * y2) \div Scale
        s  == y - (y3 \div 6) + (y5 \div 120) - (y7 \div 5040)
    IN IF s > Scale THEN Scale ELSE IF s < -Scale THEN -Scale ELSE s

\* sin(a), a >= 0 given at AngleScale
Sin(a) ==
    LET m == ((a % TwoPi) * Scale) \div AngleScale
        half == (TwoPi * Scale) \div (2 * AngleScale)
        quarter == (TwoPi * Scale) \div (4 * AngleScale)
    IN IF m <= quarter THEN SinSeries(m)
       ELSE IF m <= half + quarter THEN SinSeries(half - m)
       ELSE SinSeries(m - 2 * half)

\* mutant of Fract: the fractional part keeps the sign of its argument
FractTruncating(v) == IF v < 0 THEN -((-v) % Scale) ELSE v % Scale

\* fract(v) = v - floor(v), in [0, 1)
Fract(v) == v % Scale

----------------------------------------------------------------------------
(* createGrassInstances / computeInit *)

Zero == [x |-> 0, z |-> 0, rotation |-> 0, height |-> 0]

\* new Float32Array(count * 4): count zeroed vec4 slots
CreateGrassInstances(c) == [i \in 0 .. c - 1 |-> Zero]

GridSize(c) == Sqrt(c)

\* float(i).mod(gridSize)
GridX(i, c) == (i * Scale) % GridSize(c)

\* float(i).div(gridSize).floor()
GridZ(i, c) == ((i * Scale) \div GridSize(c)) * Scale

\* sin(float(i).mul(127.1)).fract()
Hash(i) == Fract(Sin(i * HashK1 * (AngleScale \div 10)))

\* sin(float(i).mul(269.5)).fract()
Hash2(i) == Fract(Sin(i * HashK2 * (AngleScale \div 10)))

\* fieldSize / gridSize
Spacing(c, f) == (f * Scale * Scale) \div GridSize(c)

\* hash.mul(spacing).sub(spacing * 0.5)
JitterX(i, c, f) == Mul(Hash(i), Spacing(c, f)) - Spacing(c, f) \div 2
JitterZ(i, c, f) == Mul(Hash2(i), Spacing(c, f)) - Spacing(c, f) \div 2

\* mutant of ComputeInit: the hash is seeded with the wall clock
ComputeInitClocked(i, c, f) ==
    [x        |-> Mul(GridX(i, c), Spacing(c, f)) + JitterX(i + clock, c, f),
     z        |-> Mul(GridZ(i, c), Spacing(c, f)) + JitterZ(i + clock, c, f),
     rotation |-> (Hash(i + clock) * TwoPi) \div AngleScale,
     height   |-> HeightMin + Mul(Hash2(i + clock), HeightRange)]

\* the vec4 computeInit assigns for invocation i
ComputeInit(i, c, f) ==
    [x        |-> Mul(GridX(i, c), Spacing(c, f)) + JitterX(i, c, f),
     z        |-> Mul(GridZ(i, c), Spacing(c, f)) + JitterZ(i, c, f),
     rotation |-> (Hash(i) * TwoPi) \div AngleScale,
     height   |-> HeightMin + Mul(Hash2(i), HeightRange)]

\* mutant of StoreInstance: x is chained to the record of the previous index
StoreInstanceChained(buf, i, c, f) ==
    [buf EXCEPT ![i] = [x        |-> (IF i = 0 THEN 0 ELSE buf[i - 1].x) + Spacing(c, f),
                        z        |-> ComputeInit(i, c, f).z,
                        rotation |-> ComputeInit(i, c, f).rotation,
                        height   |-> ComputeInit(i, c, f).height]]

\* storage(instanceBuffer, 'vec4', i).assign(vec4(x, z, rotation, height))
StoreInstance(buf, i, c, f) == [buf EXCEPT ![i] = ComputeInit(i, c, f)]

\* ceil(sqrt(n)) for n >= 0
CeilSqrt(n) == CHOOSE g \in 0 .. n : g * g >= n /\ (g = 0 \/ (g - 1) * (g - 1) < n)

Abs(v) == IF v < 0 THEN -v ELSE v

----------------------------------------------------------------------------
(* GrassSystem life cycle *)

\* no GrassSystem has been constructed
NoGrassSystem ==
    /\ phase = "none"
    /\ count = 0
    /\ fieldSize = 0
    /\ instanceBuffer = <<>>
    /\ writers = <<>>
    /\ initCalls = 0
    /\ queued = 0
    /\ running = FALSE
    /\ pending = {}
    /\ dispatched = 0
    /\ passes = 0
    /\ frames = 0
    /\ time = 0

\* no placement run is under way
NoRuns ==
    /\ runCount = 0
    /\ runField = 0
    /\ runBuffer = [r \in Runs |-> <<>>]
    /\ runPending = [r \in Runs |-> {}]
    /\ runStamp = [r \in Runs |-> 0]
    /\ clock = 0

\* no blade geometry is being built and no frame has been drawn
NoWind ==
    /\ segments = 0
    /\ bladeI = 0
    /\ vertices = <<>>
    /\ uvs = <<>>
    /\ indices = <<>>
    /\ windInst = Zero
    /\ windStrength = 0
    /\ charPos = <<0, 0>>
    /\ shaderFrames = [r \in Runs |-> 0]
    /\ shaderTime = [r \in Runs |-> 0]
    /\ windOffset = [r \in Runs |-> <<>>]
    /\ worldPos = [r \in Runs |-> <<>>]
    /\ distToChar = [r \in Runs |-> 0]
    /\ pushStrength = [r \in Runs |-> 0]
    /\ totalDisplacement = [r \in Runs |-> <<>>]

\* new GameLoop(): no callback registered, the clock not started
NewGameLoop ==
    /\ callbacks = <<>>
    /\ loopClock = [running |-> FALSE, oldTime |-> 0, elapsedTime |-> 0]
    /\ ticks = 0
    /\ tickPos = 0
    /\ tickLen = 0
    /\ delta = 0
    /\ elapsed = 0
    /\ calls = <<>>

\* no game loop is ticking
NoLoop == NewGameLoop /\ now = 0

\* the two grass meshes exist (Object3D.visible is true) and no frame has run
NoLod ==
    /\ cameraPosition = <<0, 0, 0>>
    /\ grassCenter = <<0, 0, 0>>
    /\ distToCamera = 0
    /\ highVisible = TRUE
    /\ lowVisible = TRUE
    /\ lodFrames = 0
    /\ lodPrev = TRUE

\* the classes of src/core/states
StateNames == {"idle", "walk", "sprint"}

\* `current: State | null = null`
Null == [name |-> "null", id |-> 0]

\* new AnimationStateMachine(), no key held
NoAnim ==
    /\ keys = {}
    /\ states = [n \in StateNames |-> 0]
    /\ stateObjects = 0
    /\ current = Null
    /\ setStateCalls = 0
    /\ requested = "null"
    /\ enterCount = 0
    /\ lastEnter = [state |-> Null, prev |-> Null]
    /\ updates = 0

\* `mouseDelta = { x: 0, y: 0 }`, nothing added or read yet
NoMouse ==
    /\ mouseDelta = <<0, 0>>
    /\ addCalls = 0
    /\ getCalls = 0
    /\ addedTotal = <<0, 0>>
    /\ addedSince = <<0, 0>>
    /\ returnedTotal = <<0, 0>>
    /\ lastReturned = <<0, 0>>

\* no character: the model at the origin, facing +z (identity quaternion)
NoChar ==
    /\ position = <<0, 0>>
    /\ camForward = <<0, -1000>>
    /\ targetRotation = <<0, 1000>>
    /\ charFrames = 0
    /\ charDelta = 0

\* no scene component is mounted
NoScene ==
    /\ scene = "none"
    /\ initPc = "none"
    /\ rendererReady = FALSE
    /\ targetSet = FALSE
    /\ cleaned = FALSE
    /\ disposed = FALSE
    /\ animationId = 0
    /\ rafPending = 0
    /\ rafIds = 0
    /\ renders = 0

\* `new ThirdPersonCamera({ camera })`: no target, theta = Math.PI,
\* phi = Math.PI / 3, the camera and the smoothed position at the origin
NoCam ==
    /\ target = "null"
    /\ theta = TwoPi \div 2
    /\ phi = TwoPi \div 6
    /\ camera = <<0, 0, 0>>
    /\ currentPosition = <<0, 0, 0>>
    /\ camUpdates = 0

\* key codes of the events sent to window
EventCodes == {"KeyW", "ShiftLeft"}

\* `new InputManager()`: not initialised, no listener, no key event yet
NoInput ==
    /\ initialized = FALSE
    /\ keydownListeners = 0
    /\ keyupListeners = 0
    /\ inputInitCalls = 0
    /\ keyEvents = 0
    /\ lastEvent = [c \in EventCodes |-> "none"]
    /\ sinceInit = [c \in EventCodes |-> "none"]
    /\ keyOps = 0

Init ==
    /\ NoGrassSystem
    /\ NoRuns
    /\ NoWind
    /\ NoLoop
    /\ NoLod
    /\ NoAnim
    /\ NoMouse
    /\ NoChar
    /\ NoScene
    /\ NoCam
    /\ NoInput

\* mutant of Construct: an empty set is refused as well
ConstructRejectEmpty(c, f) ==
    /\ phase = "none"
    /\ count' = c
    /\ fieldSize' = f
    /\ IF c <= 0
       THEN /\ phase' = "failed"
            /\ UNCHANGED <<instanceBuffer, writers>>
       ELSE /\ phase' = "built"
            /\ instanceBuffer' = CreateGrassInstances(c)
            /\ writers' = [i \in 0 .. c - 1 |-> {}]
    /\ UNCHANGED <<initCalls, queued, running, pending, dispatched, passes,
                   frames, time>>
    /\ UNCHANGED <<runVars, windVars, loopVars, lodVars, animVars, mouseVars, charVars, sceneVars, camVars, inputVars>>

\* new GrassSystem(c, f): new Float32Array(c * 4) throws RangeError for c < 0;
\* nothing else is validated
Construct(c, f) ==
    /\ phase = "none"
    /\ count' = c
    /\ fieldSize' = f
    /\ IF c < 0
       THEN /\ phase' = "failed"
            /\ UNCHANGED <<instanceBuffer, writers>>
       ELSE /\ phase' = "built"
            /\ instanceBuffer' = CreateGrassInstances(c)
            /\ writers' = [i \in 0 .. c - 1 |-> {}]
    /\ UNCHANGED <<initCalls, queued, running, pending, dispatched, passes,
                   frames, time>>
    /\ UNCHANGED <<runVars, windVars, loopVars, lodVars, animVars, mouseVars, charVars, sceneVars, camVars, inputVars>>

\* GrassSystem.init: submits one dispatch of computeInit, unconditionally
GrassSystemInit ==
    /\ phase = "built"
    /\ initCalls < MaxInitCalls
    /\ initCalls' = initCalls + 1
    /\ queued' = queued + 1
    /\ UNCHANGED <<phase, count, fieldSize, instanceBuffer, writers, running,
                   pending, dispatched, passes, frames, time>>
    /\ UNCHANGED <<runVars, windVars, loopVars, lodVars, animVars, mouseVars, charVars, sceneVars, camVars, inputVars>>

\* the queue starts the next dispatch: one invocation per instance index
DispatchStart ==
    /\ queued > 0
    /\ ~running
    /\ queued' = queued - 1
    /\ running' = TRUE
    /\ pending' = 0 .. count - 1
    /\ dispatched' = dispatched + 1
    /\ UNCHANGED <<phase, count, fieldSize, instanceBuffer, writers, initCalls,
                   passes, frames, time>>
    /\ UNCHANGED <<runVars, windVars, loopVars, lodVars, animVars, mouseVars, charVars, sceneVars, camVars, inputVars>>

\* mutant of ComputeUnit: the invocation assigns the slot after its own
ComputeUnitShifted(i) ==
    /\ running
    /\ i \in pending
    /\ instanceBuffer' = [instanceBuffer EXCEPT ![(i + 1) % count] =
                              ComputeInit(i, count, fieldSize)]
    /\ writers' = [writers EXCEPT ![(i + 1) % count] = @ \cup {i}]
    /\ pending' = pending \ {i}
    /\ UNCHANGED <<phase, count, fieldSize, initCalls, queued, running,
                   dispatched, passes, frames, time>>
    /\ UNCHANGED <<runVars, windVars, loopVars, lodVars, animVars, mouseVars, charVars, sceneVars, camVars, inputVars>>

\* one invocation of computeInit, instanceIndex = i, in any order
ComputeUnit(i) ==
    /\ running
    /\ i \in pending
    /\ instanceBuffer' = StoreInstance(instanceBuffer, i, count, fieldSize)
    /\ writers' = [writers EXCEPT ![i] = @ \cup {i}]
    /\ pending' = pending \ {i}
    /\ UNCHANGED <<phase, count, fieldSize, initCalls, queued, running,
                   dispatched, passes, frames, time>>
    /\ UNCHANGED <<runVars, windVars, loopVars, lodVars, animVars, mouseVars, charVars, sceneVars, camVars, inputVars>>

\* the dispatch has finished: await renderer.computeAsync(...) resolves
DispatchDone ==
    /\ running
    /\ pending = {}
    /\ running' = FALSE
    /\ passes' = passes + 1
    /\ UNCHANGED <<phase, count, fieldSize, instanceBuffer, writers, initCalls,
                   queued, pending, dispatched, frames, time>>
    /\ UNCHANGED <<runVars, windVars, loopVars, lodVars, animVars, mouseVars, charVars, sceneVars, camVars, inputVars>>

\* mutant of Frame: the frame bakes the elapsed time into the stored positions
FrameBaking(dt) ==
    /\ phase = "built"
    /\ frames < MaxFrames
    /\ time + dt <= MaxTime
    /\ time' = time + dt
    /\ frames' = frames + 1
    /\ instanceBuffer' = [s \in DOMAIN instanceBuffer |->
                              [instanceBuffer[s] EXCEPT !.x = @ + time']]
    /\ UNCHANGED <<phase, count, fieldSize, writers, initCalls,
                   queued, running, pending, dispatched, passes>>
    /\ UNCHANGED <<runVars, windVars, loopVars, lodVars, animVars, mouseVars, charVars, sceneVars, camVars, inputVars>>

\* one frame: the time uniform advances by dt and the mesh is drawn; the
\* vertex shader only reads instanceBuffer, and nothing checks that init ran
Frame(dt) ==
    /\ phase = "built"
    /\ frames < MaxFrames
    /\ time + dt <= MaxTime
    /\ time' = time + dt
    /\ frames' = frames + 1
    /\ UNCHANGED <<phase, count, fieldSize, instanceBuffer, writers, initCalls,
                   queued, running, pending, dispatched, passes>>
    /\ UNCHANGED <<runVars, windVars, loopVars, lodVars, animVars, mouseVars, charVars, sceneVars, camVars, inputVars>>

Next ==
    \/ \E c \in Counts, f \in FieldSizes : Construct(c, f)
    \/ GrassSystemInit
    \/ DispatchStart
    \/ \E i \in 0 .. MaxCount : ComputeUnit(i)
    \/ DispatchDone
    \/ \E dt \in 0 .. MaxTime : Frame(dt)

Spec == Init /\ [][Next]_vars

----------------------------------------------------------------------------
(* Two independent placement runs with the same (count, fieldSize), each   *)
(* with its own schedule, while the wall clock advances                    *)

InitRuns ==
    /\ NoGrassSystem
    /\ NoWind
    /\ NoLoop
    /\ NoLod
    /\ NoAnim
    /\ NoMouse
    /\ NoChar
    /\ NoScene
    /\ NoCam
    /\ NoInput
    /\ runCount \in RunCounts
    /\ runField \in RunFields
    /\ runBuffer = [r \in Runs |-> CreateGrassInstances(runCount)]
    /\ runPending = [r \in Runs |-> 0 .. runCount - 1]
    /\ runStamp = [r \in Runs |-> 0]
    /\ clock = 0

\* invocation i of computeInit in run r
RunUnit(r, i) ==
    /\ i \in runPending[r]
    /\ runBuffer' = [runBuffer EXCEPT ![r] = StoreInstance(@, i, runCount, runField)]
    /\ runPending' = [runPending EXCEPT ![r] = @ \ {i}]
    /\ runStamp' = [runStamp EXCEPT ![r] = clock]
    /\ UNCHANGED <<runCount, runField, clock>>
    /\ UNCHANGED <<grassVars, windVars, loopVars, lodVars, animVars, mouseVars, charVars, sceneVars, camVars, inputVars>>

ClockTick ==
    /\ clock < MaxClock
    /\ clock' = clock + 1
    /\ UNCHANGED <<runCount, runField, runBuffer, runPending, runStamp>>
    /\ UNCHANGED <<grassVars, windVars, loopVars, lodVars, animVars, mouseVars, charVars, sceneVars, camVars, inputVars>>

NextRuns ==
    \/ \E r \in Runs, i \in 0 .. MaxRunCount : RunUnit(r, i)
    \/ ClockTick

SpecRuns == InitRuns /\ [][NextRuns]_vars

----------------------------------------------------------------------------
(* createBladeGeometry *)

MaxSegments == 4

BladeWidth == 50
BladeTaper == 900
BladeHeight == 500

\* const t = i / segments
BladeT(i, segs) == (i * Scale) \div segs

\* mutant of BladeHalfWidth: the blade widens toward the tip
BladeHalfWidthFlared(i, segs) ==
    Mul(BladeWidth, Scale + Mul(BladeT(i, segs), BladeTaper))

\* const width = 0.05 * (1 - t * 0.9)
BladeHalfWidth(i, segs) == Mul(BladeWidth, Scale - Mul(BladeT(i, segs), BladeTaper))

\* const y = t * 0.5
BladeY(i, segs) == Mul(BladeT(i, segs), BladeHeight)

\* mutant of QuadIndices: the second triangle is listed the other way round
QuadIndicesFlipped(i) ==
    LET base == i * 2
    IN <<base, base + 1, base + 2, base + 1, base + 2, base + 3>>

\* indices.push(base, base + 1, base + 2); indices.push(base + 1, base + 3, base + 2)
QuadIndices(i) ==
    LET base == i * 2
    IN <<base, base + 1, base + 2, base + 1, base + 3, base + 2>>

\* one iteration of the loop `for (let i = 0; i <= segments; i++)`
BladeStep ==
    /\ segments >= 1
    /\ bladeI <= segments
    /\ vertices' = vertices \o
           << <<-BladeHalfWidth(bladeI, segments), BladeY(bladeI, segments), 0>>,
              <<BladeHalfWidth(bladeI, segments), BladeY(bladeI, segments), 0>> >>
    /\ uvs' = uvs \o << <<0, BladeT(bladeI, segments)>>,
                        <<Scale, BladeT(bladeI, segments)>> >>
    /\ indices' = IF bladeI < segments THEN indices \o QuadIndices(bladeI)
                  ELSE indices
    /\ bladeI' = bladeI + 1
    /\ UNCHANGED segments
    /\ UNCHANGED <<grassVars, runVars, shaderVars, loopVars, lodVars, animVars, mouseVars, charVars, sceneVars, camVars, inputVars>>

\* the loop has ended and the geometry is returned
BladeBuilt == segments >= 1 /\ bladeI > segments

----------------------------------------------------------------------------
(* createGrassVertexShader and the proximity extension *)

MaxShaderFrames == 2
MaxShaderTicks == 2

WindFrequency == 500
TimeFactor == 2
PushRadius == 2000
PushScale == 500

\* the instances of the 2 x 2 field of side 2 the shader is evaluated for
WindInstances == {ComputeInit(i, 4, 2) : i \in 0 .. 3}
WindStrengths == {0, 300, 1000}
\* actor positions relative to the instance: inside, at and outside the radius
CharOffsets == {<<0, 0>>, <<500, 0>>, <<0, -1000>>, <<1200, 1600>>, <<3000, 0>>}

\* elapsed seconds after k ticks of a quarter second
Seconds(k) == k * (Scale \div 4)

Max(a, b) == IF a >= b THEN a ELSE b

Cos(a) == Sin(a + TwoPi \div 4)

\* localPos.y.div(0.5)
LocalT(ly) == (ly * Scale) \div BladeHeight

\* instancePos.x.mul(windFrequency).add(instancePos.y.mul(windFrequency)).add(time.mul(2.0))
WindPhase(inst, tm) ==
    Mul(inst.x, WindFrequency) + Mul(inst.z, WindFrequency) + TimeFactor * tm

\* mutant of WindWave: a sawtooth of the phase, which jumps where it wraps
WindWaveSawtooth(inst, tm) == 2 * Fract(WindPhase(inst, tm)) - Scale

WindWave(inst, tm) == Sin(WindPhase(inst, tm) * (AngleScale \div Scale))

\* mutant of WindOffset: no height falloff
WindOffsetNoFalloff(inst, ly, strength, tm) == Mul(WindWave(inst, tm), strength)

\* mutant of WindOffset: linear instead of quadratic falloff
WindOffsetLinear(inst, ly, strength, tm) ==
    Mul(Mul(WindWave(inst, tm), strength), LocalT(ly))

\* mutant of WindOffset: the strength is added to the wave
WindOffsetAdded(inst, ly, strength, tm) ==
    Mul(WindWave(inst, tm) + strength, Mul(LocalT(ly), LocalT(ly)))

\* sin(...).mul(windStrength).mul(t.mul(t))
WindOffset(inst, ly, strength, tm) ==
    Mul(Mul(WindWave(inst, tm), strength), Mul(LocalT(ly), LocalT(ly)))

\* worldPos of the vertex with local position v = <<x, y, z>>
WorldPos(inst, v, strength, tm) ==
    LET w    == WindOffset(inst, v[2], strength, tm)
        cosR == Cos(inst.rotation * (AngleScale \div Scale))
        sinR == Sin(inst.rotation * (AngleScale \div Scale))
        rotatedX == Mul(v[1], cosR) - Mul(w, sinR)
        rotatedZ == Mul(v[1], sinR) + Mul(w, cosR)
    IN <<inst.x + rotatedX, Mul(v[2], inst.height), inst.z + rotatedZ>>

\* instancePos.sub(charPos)
ToChar(inst, cp) == <<inst.x - cp[1], inst.z - cp[2]>>

\* toChar.length()
Length(v) == SqrtSearch(v[1] * v[1] + v[2] * v[2], 0, Abs(v[1]) + Abs(v[2]))

\* mutant of PushStrengthAt: the .max(0) is missing
PushStrengthUnclamped(d) == Scale - (d * Scale) \div PushRadius

\* float(1.0).sub(distToChar.div(2.0)).max(0)
PushStrengthAt(d) == Max(Scale - (d * Scale) \div PushRadius, 0)

\* what normalize() may return for the zero vector: the shading language
\* leaves the value indeterminate
ZeroNormalized == {<<0, 0>>, <<Scale, 0>>, <<0, -Scale>>}

\* toChar.normalize(); nz is the value the hardware produces for <<0, 0>>
Normalize(v, nz) ==
    IF v = <<0, 0>>
    THEN nz
    ELSE <<(v[1] * Scale) \div Length(v), (v[2] * Scale) \div Length(v)>>

\* toChar.normalize().mul(pushStrength).mul(0.5)
PushDir(inst, cp, nz) ==
    LET tc == ToChar(inst, cp)
        n  == Normalize(tc, nz)
        ps == PushStrengthAt(Length(tc))
    IN <<Mul(Mul(n[1], ps), PushScale), Mul(Mul(n[2], ps), PushScale)>>

\* windDisplacement.add(pushDir): the scalar is added to both components
TotalDisplacement(inst, ly, strength, tm, cp, nz) ==
    LET w == WindOffset(inst, ly, strength, tm)
        pd == PushDir(inst, cp, nz)
    IN <<w + pd[1], w + pd[2]>>

InitWind ==
    /\ NoGrassSystem
    /\ NoRuns
    /\ NoLoop
    /\ NoLod
    /\ NoAnim
    /\ NoMouse
    /\ NoChar
    /\ NoScene
    /\ NoCam
    /\ NoInput
    /\ segments \in 1 .. MaxSegments
    /\ bladeI = 0
    /\ vertices = <<>>
    /\ uvs = <<>>
    /\ indices = <<>>
    /\ windInst \in WindInstances
    /\ windStrength \in WindStrengths
    /\ charPos = <<windInst.x + 3 * Scale, windInst.z>>
    /\ shaderFrames = [r \in Runs |-> 0]
    /\ shaderTime = [r \in Runs |-> 0]
    /\ windOffset = [r \in Runs |-> <<>>]
    /\ worldPos = [r \in Runs |-> <<>>]
    /\ distToChar = [r \in Runs |-> 0]
    /\ pushStrength = [r \in Runs |-> 0]
    /\ totalDisplacement = [r \in Runs |-> <<>>]

\* the character system moves the actor; charPos is refreshed for the next frame
CharMove(off) ==
    /\ charPos' = <<windInst.x + off[1], windInst.z + off[2]>>
    /\ charPos' # charPos
    /\ UNCHANGED <<windInst, windStrength, shaderFrames, shaderTime, windOffset,
                   worldPos, distToChar, pushStrength, totalDisplacement>>
    /\ UNCHANGED <<grassVars, runVars, bladeVars, loopVars, lodVars, animVars, mouseVars, charVars, sceneVars, camVars, inputVars>>

\* mutant of ShaderFrame: the wave is driven by the frame counter, not by time
ShaderFrameCounting(r, dt) ==
    /\ BladeBuilt
    /\ shaderFrames[r] < MaxShaderFrames
    /\ shaderTime[r] + dt <= MaxShaderTicks
    /\ shaderFrames' = [shaderFrames EXCEPT ![r] = @ + 1]
    /\ shaderTime' = [shaderTime EXCEPT ![r] = @ + dt]
    /\ windOffset' = [windOffset EXCEPT ![r] =
           [k \in DOMAIN vertices |->
               WindOffset(windInst, vertices[k][2], windStrength,
                          Seconds(shaderFrames'[r]))]]
    /\ worldPos' = [worldPos EXCEPT ![r] =
           [k \in DOMAIN vertices |->
               WorldPos(windInst, vertices[k], windStrength,
                        Seconds(shaderFrames'[r]))]]
    /\ distToChar' = [distToChar EXCEPT ![r] = Length(ToChar(windInst, charPos))]
    /\ pushStrength' = [pushStrength EXCEPT ![r] = PushStrengthAt(distToChar'[r])]
    /\ \E nz \in ZeroNormalized :
           totalDisplacement' = [totalDisplacement EXCEPT ![r] =
               [k \in DOMAIN vertices |->
                   TotalDisplacement(windInst, vertices[k][2], windStrength,
                                     Seconds(shaderFrames'[r]), charPos, nz)]]
    /\ UNCHANGED <<windInst, windStrength, charPos>>
    /\ UNCHANGED <<grassVars, runVars, bladeVars, loopVars, lodVars, animVars, mouseVars, charVars, sceneVars, camVars, inputVars>>

\* one frame of execution r: the time node advances by dt ticks and the
\* vertex shader is evaluated for every vertex of the blade
ShaderFrame(r, dt) ==
    /\ BladeBuilt
    /\ shaderFrames[r] < MaxShaderFrames
    /\ shaderTime[r] + dt <= MaxShaderTicks
    /\ shaderFrames' = [shaderFrames EXCEPT ![r] = @ + 1]
    /\ shaderTime' = [shaderTime EXCEPT ![r] = @ + dt]
    /\ windOffset' = [windOffset EXCEPT ![r] =
           [k \in DOMAIN vertices |->
               WindOffset(windInst, vertices[k][2], windStrength,
                          Seconds(shaderTime'[r]))]]
    /\ worldPos' = [worldPos EXCEPT ![r] =
           [k \in DOMAIN vertices |->
               WorldPos(windInst, vertices[k], windStrength,
                        Seconds(shaderTime'[r]))]]
    /\ distToChar' = [distToChar EXCEPT ![r] = Length(ToChar(windInst, charPos))]
    /\ pushStrength' = [pushStrength EXCEPT ![r] = PushStrengthAt(distToChar'[r])]
    /\ \E nz \in ZeroNormalized :
           totalDisplacement' = [totalDisplacement EXCEPT ![r] =
               [k \in DOMAIN vertices |->
                   TotalDisplacement(windInst, vertices[k][2], windStrength,
                                     Seconds(shaderTime'[r]), charPos, nz)]]
    /\ UNCHANGED <<windInst, windStrength, charPos>>
    /\ UNCHANGED <<grassVars, runVars, bladeVars, loopVars, lodVars, animVars, mouseVars, charVars, sceneVars, camVars, inputVars>>

\* one execution, with the actor moving between frames
NextWind ==
    \/ BladeStep
    \/ \E off \in CharOffsets : CharMove(off)
    \/ \E dt \in 0 .. MaxShaderTicks : ShaderFrame(1, dt)

SpecWind == InitWind /\ [][NextWind]_vars

\* two executions of the same blade, instance and wind, each with its own frames
NextFrames ==
    \/ BladeStep
    \/ \E r \in Runs, dt \in 0 .. MaxShaderTicks : ShaderFrame(r, dt)

SpecFrames == InitWind /\ [][NextFrames]_vars

----------------------------------------------------------------------------
(* GameLoop (register, tick) over THREE.Clock *)

MaxCallbacks == 2
MaxTicks == 3
MaxNow == 3

\* Clock.start() at wall-clock time t
ClockStart(t) == [running |-> TRUE, oldTime |-> t, elapsedTime |-> 0]

\* Clock.getDelta() at wall-clock time t: the clock after the call and the
\* value returned; the first call starts the clock and returns 0
ClockGetDelta(c, t) ==
    IF ~c.running
    THEN [clock |-> ClockStart(t), diff |-> 0]
    ELSE [clock |-> [c EXCEPT !.oldTime = t,
                              !.elapsedTime = @ + (t - c.oldTime)],
          diff |-> t - c.oldTime]

\* Clock.getElapsedTime() at wall-clock time t: getDelta(), then elapsedTime
ClockGetElapsedTime(c, t) ==
    LET r == ClockGetDelta(c, t)
    IN [clock |-> r.clock, elapsed |-> r.clock.elapsedTime]

InitLoop ==
    /\ NoGrassSystem
    /\ NoRuns
    /\ NoWind
    /\ NewGameLoop
    /\ NoLod
    /\ NoAnim
    /\ NoMouse
    /\ NoChar
    /\ NoScene
    /\ NoCam
    /\ NoInput
    /\ now \in 0 .. 1

\* register({ callback }): the callback is pushed at the end
Register ==
    /\ Len(callbacks) < MaxCallbacks
    /\ callbacks' = Append(callbacks, Len(callbacks) + 1)
    /\ UNCHANGED <<loopClock, now, ticks, tickPos, tickLen, delta, elapsed, calls>>
    /\ UNCHANGED <<grassVars, runVars, windVars, lodVars, animVars, mouseVars, charVars, sceneVars, camVars, inputVars>>

\* the wall clock advances, also while the callbacks of a tick are running
TimePasses ==
    /\ now < MaxNow
    /\ now' = now + 1
    /\ UNCHANGED <<callbacks, loopClock, ticks, tickPos, tickLen, delta, elapsed, calls>>
    /\ UNCHANGED <<grassVars, runVars, windVars, lodVars, animVars, mouseVars, charVars, sceneVars, camVars, inputVars>>

\* tick(), up to the start of forEach: delta and elapsed are read from the
\* clock, gap being the wall-clock time between the two reads
TickStart ==
    /\ tickPos = 0
    /\ ticks < MaxTicks
    /\ \E gap \in 0 .. 1 :
           /\ now + gap <= MaxNow
           /\ now' = now + gap
           /\ LET d == ClockGetDelta(loopClock, now)
                  e == ClockGetElapsedTime(d.clock, now + gap)
              IN /\ delta' = d.diff
                 /\ elapsed' = e.elapsed
                 /\ loopClock' = e.clock
    /\ ticks' = ticks + 1
    /\ tickLen' = Len(callbacks)
    /\ tickPos' = IF Len(callbacks) = 0 THEN 0 ELSE 1
    /\ UNCHANGED <<callbacks, calls>>
    /\ UNCHANGED <<grassVars, runVars, windVars, lodVars, animVars, mouseVars, charVars, sceneVars, camVars, inputVars>>

\* mutant of TickCall: every callback is handed a fresh reading of the clock
TickCallRereading ==
    /\ tickPos >= 1
    /\ LET e == ClockGetElapsedTime(loopClock, now)
       IN /\ elapsed' = e.elapsed
          /\ loopClock' = e.clock
    /\ calls' = Append(calls, [cb |-> callbacks[tickPos], tick |-> ticks,
                               delta |-> delta, elapsed |-> elapsed'])
    /\ tickPos' = IF tickPos = tickLen THEN 0 ELSE tickPos + 1
    /\ UNCHANGED <<callbacks, now, ticks, tickLen, delta>>
    /\ UNCHANGED <<grassVars, runVars, windVars, lodVars, animVars, mouseVars, charVars, sceneVars, camVars, inputVars>>

\* mutant of TickCall: the loop runs to the live length of the array, so it
\* also visits a callback registered while the tick is under way
TickCallLive ==
    /\ tickPos >= 1
    /\ calls' = Append(calls, [cb |-> callbacks[tickPos], tick |-> ticks,
                               delta |-> delta, elapsed |-> elapsed])
    /\ tickPos' = IF tickPos = Len(callbacks) THEN 0 ELSE tickPos + 1
    /\ UNCHANGED <<callbacks, loopClock, now, ticks, tickLen, delta, elapsed>>
    /\ UNCHANGED <<grassVars, runVars, windVars, lodVars, animVars, mouseVars, charVars, sceneVars, camVars, inputVars>>

\* one step of this.callbacks.forEach((cb) => cb({ delta, elapsed }))
TickCall ==
    /\ tickPos >= 1
    /\ calls' = Append(calls, [cb |-> callbacks[tickPos], tick |-> ticks,
                               delta |-> delta, elapsed |-> elapsed])
    /\ tickPos' = IF tickPos = tickLen THEN 0 ELSE tickPos + 1
    /\ UNCHANGED <<callbacks, loopClock, now, ticks, tickLen, delta, elapsed>>
    /\ UNCHANGED <<grassVars, runVars, windVars, lodVars, animVars, mouseVars, charVars, sceneVars, camVars, inputVars>>

NextLoop == Register \/ TimePasses \/ TickStart \/ TickCall

SpecLoop == InitLoop /\ [][NextLoop]_vars

----------------------------------------------------------------------------
(* Distance-based LOD of a tile *)

MaxLodFrames == 3

LodThreshold == 30000

TileCenters == {<<0, 0, 0>>, <<10000, 0, -5000>>}
CameraOffsets == {<<0, 0, 0>>, <<29999, 0, 0>>, <<18000, 24000, 0>>,
                  <<0, 30000, 1000>>, <<0, 0, 40000>>}

\* a.distanceTo(b)
DistanceTo(a, b) ==
    LET dx == a[1] - b[1]
        dy == a[2] - b[2]
        dz == a[3] - b[3]
    IN SqrtSearch(dx * dx + dy * dy + dz * dz, 0, Abs(dx) + Abs(dy) + Abs(dz))

InitLod ==
    /\ NoGrassSystem
    /\ NoRuns
    /\ NoWind
    /\ NoLoop
    /\ NoAnim
    /\ NoMouse
    /\ NoChar
    /\ NoScene
    /\ NoCam
    /\ NoInput
    /\ grassCenter \in TileCenters
    /\ \E off \in CameraOffsets :
           cameraPosition = <<grassCenter[1] + off[1], grassCenter[2] + off[2],
                              grassCenter[3] + off[3]>>
    /\ distToCamera = 0
    /\ highVisible = TRUE
    /\ lowVisible = TRUE
    /\ lodFrames = 0
    /\ lodPrev = TRUE

\* the camera is moved between two frames
CameraMove(off) ==
    /\ cameraPosition' = <<grassCenter[1] + off[1], grassCenter[2] + off[2],
                           grassCenter[3] + off[3]>>
    /\ cameraPosition' # cameraPosition
    /\ UNCHANGED <<grassCenter, distToCamera, highVisible, lowVisible, lodFrames, lodPrev>>
    /\ UNCHANGED <<grassVars, runVars, windVars, loopVars, animVars, mouseVars, charVars, sceneVars, camVars, inputVars>>

\* mutant of LodFrame: a tile shown in high detail stays so at the threshold
LodFrameSticky ==
    /\ lodFrames < MaxLodFrames
    /\ distToCamera' = DistanceTo(cameraPosition, grassCenter)
    /\ highVisible' = IF highVisible THEN distToCamera' <= LodThreshold
                                     ELSE distToCamera' < LodThreshold
    /\ lowVisible' = ~highVisible'
    /\ lodPrev' = highVisible
    /\ lodFrames' = lodFrames + 1
    /\ UNCHANGED <<cameraPosition, grassCenter>>
    /\ UNCHANGED <<grassVars, runVars, windVars, loopVars, animVars, mouseVars, charVars, sceneVars, camVars, inputVars>>

\* the render loop body of one frame
LodFrame ==
    /\ lodFrames < MaxLodFrames
    /\ distToCamera' = DistanceTo(cameraPosition, grassCenter)
    /\ highVisible' = (distToCamera' < LodThreshold)
    /\ lowVisible' = (distToCamera' >= LodThreshold)
    /\ lodPrev' = highVisible
    /\ lodFrames' = lodFrames + 1
    /\ UNCHANGED <<cameraPosition, grassCenter>>
    /\ UNCHANGED <<grassVars, runVars, windVars, loopVars, animVars, mouseVars, charVars, sceneVars, camVars, inputVars>>

NextLod == (\E off \in CameraOffsets : CameraMove(off)) \/ LodFrame

SpecLod == InitLod /\ [][NextLod]_vars

----------------------------------------------------------------------------
(* InputManager keys, the three states and AnimationStateMachine *)

MaxStateObjects == 4
MaxSetStates == 4
MaxUpdates == 3

MovementKeys == {"KeyW", "KeyA", "KeyS", "KeyD"}
KeyCodes == MovementKeys \cup {"ShiftLeft"}

\* the keys pressed and released while the state machine alone is exercised
AnimKeys == {"KeyW", "ShiftLeft"}

\* names handed to setState; no class registers "jump"
SetStateNames == StateNames \cup {"jump"}

\* InputManager.isMoving()
IsMoving == keys \cap MovementKeys # {}

\* InputManager.isSprinting(): Shift held
IsSprinting == "ShiftLeft" \in keys

\* IdleState.update: the name of the next state, "null" for null
IdleStateUpdate ==
    IF IsMoving THEN (IF IsSprinting THEN "sprint" ELSE "walk") ELSE "null"

\* mutant of WalkStateUpdate: a walking character never starts to sprint
WalkStateUpdateNoSprint == IF ~IsMoving THEN "idle" ELSE "null"

\* WalkState.update
WalkStateUpdate ==
    IF ~IsMoving THEN "idle" ELSE IF IsSprinting THEN "sprint" ELSE "null"

\* SprintState.update
SprintStateUpdate ==
    IF ~IsMoving THEN "idle" ELSE IF ~IsSprinting THEN "walk" ELSE "null"

\* this.current.update({ delta })
StateUpdate(st) ==
    CASE st.name = "idle" -> IdleStateUpdate
      [] st.name = "walk" -> WalkStateUpdate
      [] st.name = "sprint" -> SprintStateUpdate

\* this.states.get(name): the object registered under name, Null for undefined
StatesGet(name) ==
    IF name \in StateNames /\ states[name] # 0
    THEN [name |-> name, id |-> states[name]]
    ELSE Null

\* mutant of DoSetState: the state is entered again when it is already current
DoSetStateReentering(name) ==
    /\ setStateCalls' = setStateCalls + 1
    /\ requested' = name
    /\ IF StatesGet(name) = Null
       THEN UNCHANGED <<current, enterCount, lastEnter>>
       ELSE /\ lastEnter' = [state |-> StatesGet(name), prev |-> current]
            /\ enterCount' = enterCount + 1
            /\ current' = StatesGet(name)

\* the body of setState({ name })
DoSetState(name) ==
    /\ setStateCalls' = setStateCalls + 1
    /\ requested' = name
    /\ IF StatesGet(name) = Null \/ StatesGet(name) = current
       THEN UNCHANGED <<current, enterCount, lastEnter>>
       ELSE /\ lastEnter' = [state |-> StatesGet(name), prev |-> current]
            /\ enterCount' = enterCount + 1
            /\ current' = StatesGet(name)

InitAnim ==
    /\ NoGrassSystem
    /\ NoRuns
    /\ NoWind
    /\ NoLoop
    /\ NoLod
    /\ NoAnim
    /\ NoMouse
    /\ NoChar
    /\ NoScene
    /\ NoCam
    /\ NoInput

\* the keydown listener: keys.add(e.code)
KeyDown(code) ==
    /\ code \notin keys
    /\ keys' = keys \cup {code}
    /\ UNCHANGED <<states, stateObjects, current, setStateCalls, requested,
                   enterCount, lastEnter, updates>>
    /\ UNCHANGED <<grassVars, runVars, windVars, loopVars, lodVars, mouseVars, charVars, sceneVars, camVars, inputVars>>

\* the keyup listener: keys.delete(e.code)
KeyUp(code) ==
    /\ code \in keys
    /\ keys' = keys \ {code}
    /\ UNCHANGED <<states, stateObjects, current, setStateCalls, requested,
                   enterCount, lastEnter, updates>>
    /\ UNCHANGED <<grassVars, runVars, windVars, loopVars, lodVars, mouseVars, charVars, sceneVars, camVars, inputVars>>

\* addState({ state }) with a new state object of class name
AddState(name) ==
    /\ stateObjects < MaxStateObjects
    /\ stateObjects' = stateObjects + 1
    /\ states' = [states EXCEPT ![name] = stateObjects + 1]
    /\ UNCHANGED <<keys, current, setStateCalls, requested, enterCount, lastEnter, updates>>
    /\ UNCHANGED <<grassVars, runVars, windVars, loopVars, lodVars, mouseVars, charVars, sceneVars, camVars, inputVars>>

\* setState({ name }) called from outside the machine
SetState(name) ==
    /\ setStateCalls < MaxSetStates
    /\ DoSetState(name)
    /\ UNCHANGED <<keys, states, stateObjects, updates>>
    /\ UNCHANGED <<grassVars, runVars, windVars, loopVars, lodVars, mouseVars, charVars, sceneVars, camVars, inputVars>>

\* the body of update({ delta })
DoAsmUpdate ==
    /\ updates' = updates + 1
    /\ IF current = Null
       THEN UNCHANGED <<current, setStateCalls, requested, enterCount, lastEnter>>
       ELSE IF StateUpdate(current) # "null"
            THEN DoSetState(StateUpdate(current))
            ELSE UNCHANGED <<current, setStateCalls, requested, enterCount, lastEnter>>
    /\ UNCHANGED <<keys, states, stateObjects>>

\* update({ delta }) called on the machine
AsmUpdate ==
    /\ updates < MaxUpdates
    /\ setStateCalls < MaxSetStates
    /\ DoAsmUpdate
    /\ UNCHANGED <<grassVars, runVars, windVars, loopVars, lodVars, mouseVars, charVars, sceneVars, camVars, inputVars>>

NextAnim ==
    \/ \E code \in AnimKeys : KeyDown(code)
    \/ \E code \in AnimKeys : KeyUp(code)
    \/ \E name \in StateNames : AddState(name)
    \/ \E name \in SetStateNames : SetState(name)
    \/ AsmUpdate

SpecAnim == InitAnim /\ [][NextAnim]_vars

----------------------------------------------------------------------------
(* InputManager mouse accumulator *)

MaxAddCalls == 3
MaxGetCalls == 3

\* (movementX, movementY) of a mousemove event
MouseMovements == {<<3, 0>>, <<-2, 1>>, <<-3, -4>>, <<0, 0>>}

Plus(a, b) == <<a[1] + b[1], a[2] + b[2]>>

InitMouse ==
    /\ NoGrassSystem
    /\ NoRuns
    /\ NoWind
    /\ NoLoop
    /\ NoLod
    /\ NoAnim
    /\ NoMouse
    /\ NoChar
    /\ NoScene
    /\ NoCam
    /\ NoInput

\* mutant of AddMouseDelta: the delta is assigned instead of added
AddMouseDeltaAssigning(d) ==
    /\ addCalls < MaxAddCalls
    /\ mouseDelta' = d
    /\ addCalls' = addCalls + 1
    /\ addedTotal' = Plus(addedTotal, d)
    /\ addedSince' = Plus(addedSince, d)
    /\ UNCHANGED <<getCalls, returnedTotal, lastReturned>>
    /\ UNCHANGED <<grassVars, runVars, windVars, loopVars, lodVars, animVars, charVars, sceneVars, camVars, inputVars>>

\* addMouseDelta({ x, y })
AddMouseDelta(d) ==
    /\ addCalls < MaxAddCalls
    /\ mouseDelta' = Plus(mouseDelta, d)
    /\ addCalls' = addCalls + 1
    /\ addedTotal' = Plus(addedTotal, d)
    /\ addedSince' = Plus(addedSince, d)
    /\ UNCHANGED <<getCalls, returnedTotal, lastReturned>>
    /\ UNCHANGED <<grassVars, runVars, windVars, loopVars, lodVars, animVars, charVars, sceneVars, camVars, inputVars>>

\* the body of getMouseDelta(): a copy is returned and the accumulator is zeroed
DoGetMouseDelta ==
    /\ lastReturned' = mouseDelta
    /\ mouseDelta' = <<0, 0>>
    /\ getCalls' = getCalls + 1
    /\ returnedTotal' = Plus(returnedTotal, mouseDelta)
    /\ addedSince' = <<0, 0>>
    /\ UNCHANGED <<addCalls, addedTotal>>

\* getMouseDelta() called once
GetMouseDelta ==
    /\ getCalls < MaxGetCalls
    /\ DoGetMouseDelta
    /\ UNCHANGED <<grassVars, runVars, windVars, loopVars, lodVars, animVars, charVars, sceneVars, camVars, inputVars>>

NextMouse == (\E d \in MouseMovements : AddMouseDelta(d)) \/ GetMouseDelta

SpecMouse == InitMouse /\ [][NextMouse]_vars

----------------------------------------------------------------------------
(* Character.update: the state machine, then CharacterController.update *)

MaxCharFrames == 2

WalkSpeed == 12000
SprintSpeed == 24000

\* frame deltas, in thousandths of a second (the first tick of a clock has 0)
Deltas == {0, 16}

\* unit forward directions of the camera in the ground plane
Forwards == {<<0, -1000>>, <<600, 800>>}

\* a / b rounded toward zero
Div(a, b) == IF a >= 0 THEN a \div b ELSE -((-a) \div b)

\* Vector.normalize(): divideScalar(length() || 1), the zero vector stays zero
VectorNormalize(v) ==
    IF Length(v) = 0 THEN <<0, 0>>
    ELSE <<Div(v[1] * Scale, Length(v)), Div(v[2] * Scale, Length(v))>>

\* 1 if the key is held, else 0
Held(code) == IF code \in keys THEN 1 ELSE 0

\* InputManager.getDirection()
GetDirection ==
    VectorNormalize(<<(Held("KeyD") - Held("KeyA")) * Scale,
                      (Held("KeyW") - Held("KeyS")) * Scale>>)

\* getRightDirection(): forward x (0, 1, 0), in the ground plane
RightDirection(f) == <<-f[2], f[1]>>

\* moveDir: right * inputDir.x + forward * inputDir.y, normalized
MoveDir(f) ==
    LET dir == GetDirection
        r == RightDirection(f)
    IN VectorNormalize(<<Mul(r[1], dir[1]) + Mul(f[1], dir[2]),
                         Mul(r[2], dir[1]) + Mul(f[2], dir[2])>>)

\* Input.isSprinting() ? SPRINT_SPEED : WALK_SPEED
Speed == IF IsSprinting THEN SprintSpeed ELSE WalkSpeed

\* the body of CharacterController.update({ delta, model, camera })
DoControllerUpdate(dt) ==
    IF Length(GetDirection) = 0
    THEN UNCHANGED <<position, targetRotation>>
    ELSE /\ position' = <<position[1] + Mul(MoveDir(camForward)[1], Mul(Speed, dt)),
                          position[2] + Mul(MoveDir(camForward)[2], Mul(Speed, dt))>>
         /\ targetRotation' = IF Length(MoveDir(camForward)) > 0
                              THEN MoveDir(camForward) ELSE targetRotation

\* the character as Character.load leaves it: the three states registered,
\* idle entered, the model at the origin
Loaded3 ==
    /\ keys = {}
    /\ states = [n \in StateNames |->
                    IF n = "idle" THEN 1 ELSE IF n = "walk" THEN 2 ELSE 3]
    /\ stateObjects = 3
    /\ current = [name |-> "idle", id |-> 1]
    /\ setStateCalls = 1
    /\ requested = "idle"
    /\ enterCount = 1
    /\ lastEnter = [state |-> [name |-> "idle", id |-> 1], prev |-> Null]
    /\ updates = 0
    /\ position = <<0, 0>>
    /\ targetRotation = <<0, 1000>>
    /\ charFrames = 0
    /\ charDelta = 0

InitChar ==
    /\ NoGrassSystem
    /\ NoRuns
    /\ NoWind
    /\ NoLoop
    /\ NoLod
    /\ NoMouse
    /\ NoScene
    /\ NoCam
    /\ NoInput
    /\ Loaded3
    /\ camForward \in Forwards

\* the body of Character.update({ delta, camera })
DoCharacterUpdate(dt) ==
    /\ charFrames' = charFrames + 1
    /\ charDelta' = dt
    /\ DoAsmUpdate
    /\ DoControllerUpdate(dt)
    /\ UNCHANGED camForward

\* Character.update({ delta, camera }) called once
CharacterUpdate(dt) ==
    /\ charFrames < MaxCharFrames
    /\ DoCharacterUpdate(dt)
    /\ UNCHANGED <<grassVars, runVars, windVars, loopVars, lodVars, mouseVars, sceneVars, camVars, inputVars>>

NextChar ==
    \/ \E code \in KeyCodes : KeyDown(code)
    \/ \E code \in KeyCodes : KeyUp(code)
    \/ \E dt \in Deltas : CharacterUpdate(dt)

SpecChar == InitChar /\ [][NextChar]_vars

----------------------------------------------------------------------------
(* The scene component: mount, asynchronous initialisation, frames, cleanup *)

SceneKinds == {"grass", "character"}

\* the callback the scene registered, run by a tick with the given delta:
\* the grass scene renders; the character scene updates the character and
\* the camera (which reads the mouse delta once its target is set), then
\* renders
SceneCallback(dt) ==
    /\ renders' = renders + 1
    /\ IF scene = "character"
       THEN /\ DoCharacterUpdate(dt)
            /\ IF targetSet' THEN DoGetMouseDelta ELSE UNCHANGED mouseVars
       ELSE UNCHANGED <<animVars, mouseVars, charVars, camVars, inputVars>>

\* the body of animate(): the next frame is requested, then gameLoop.tick()
\* reads the clock and runs the callbacks cbs
DoAnimate(cbs) ==
    /\ rafIds' = rafIds + 1
    /\ animationId' = rafIds + 1
    /\ rafPending' = rafIds + 1
    /\ ticks' = ticks + 1
    /\ LET d == ClockGetDelta(loopClock, now)
           e == ClockGetElapsedTime(d.clock, now)
       IN /\ delta' = d.diff
          /\ elapsed' = e.elapsed
          /\ loopClock' = e.clock
    /\ tickLen' = Len(cbs)
    /\ tickPos' = 0
    /\ calls' = calls \o [i \in 1 .. Len(cbs) |->
                              [cb |-> cbs[i], tick |-> ticks', delta |-> delta',
                               elapsed |-> elapsed']]
    /\ UNCHANGED now
    /\ IF Len(cbs) > 0
       THEN SceneCallback(delta')
       ELSE UNCHANGED <<renders, animVars, mouseVars, charVars>>

InitScene ==
    /\ NoGrassSystem
    /\ NoRuns
    /\ NoWind
    /\ NoLoop
    /\ NoLod
    /\ NoAnim
    /\ NoMouse
    /\ NoChar
    /\ NoScene
    /\ NoCam
    /\ NoInput

\* mutant of Mount: the animation loop is started at once, not when the
\* initialisation has finished
MountAnimating(kind) ==
    /\ scene = "none"
    /\ scene' = kind
    /\ initPc' = "init"
    /\ callbacks' = IF kind = "grass" THEN Append(callbacks, Len(callbacks) + 1)
                    ELSE callbacks
    /\ DoAnimate(callbacks')
    /\ UNCHANGED <<rendererReady, targetSet, cleaned, disposed>>
    /\ UNCHANGED <<grassVars, runVars, windVars, lodVars, camVars, inputVars>>

\* the effect runs: renderer, scene, camera and game loop are created (the
\* grass scene registers its render callback), and renderer.init() is called
Mount(kind) ==
    /\ scene = "none"
    /\ scene' = kind
    /\ initPc' = "init"
    /\ callbacks' = IF kind = "grass" THEN Append(callbacks, Len(callbacks) + 1)
                    ELSE callbacks
    /\ UNCHANGED <<loopClock, now, ticks, tickPos, tickLen, delta, elapsed, calls>>
    /\ UNCHANGED <<rendererReady, targetSet, cleaned, disposed, animationId,
                   rafPending, rafIds, renders>>
    /\ UNCHANGED <<grassVars, runVars, windVars, lodVars, animVars, mouseVars, charVars, camVars, inputVars>>

\* renderer.init() resolves: the grass scene calls animate(), the character
\* scene goes on to load the character
RendererInitResolves ==
    /\ initPc = "init"
    /\ ticks < MaxTicks
    /\ rendererReady' = TRUE
    /\ IF scene = "grass"
       THEN /\ initPc' = "done"
            /\ DoAnimate(callbacks)
       ELSE /\ initPc' = "load"
            /\ UNCHANGED <<loopClock, now, ticks, tickPos, tickLen, delta, elapsed, calls>>
            /\ UNCHANGED <<animationId, rafPending, rafIds, renders>>
            /\ UNCHANGED <<animVars, mouseVars, charVars, camVars, inputVars>>
    /\ UNCHANGED <<scene, targetSet, cleaned, disposed, callbacks>>
    /\ UNCHANGED <<grassVars, runVars, windVars, lodVars, camVars, inputVars>>

\* renderer.init() rejects: nothing continues
RendererInitRejects ==
    /\ initPc = "init"
    /\ initPc' = "failed"
    /\ UNCHANGED <<scene, rendererReady, targetSet, cleaned, disposed, animationId,
                   rafPending, rafIds, renders>>
    /\ UNCHANGED <<grassVars, runVars, windVars, loopVars, lodVars, animVars,
                   mouseVars, charVars, camVars, inputVars>>

\* character.load(): the awaited loading is over and the state machine is
\* set up (idle, walk and sprint added, idle entered)
CharacterLoadFinishes ==
    /\ initPc = "load"
    /\ initPc' = "loaded"
    /\ states' = [n \in StateNames |->
                     IF n = "idle" THEN 1 ELSE IF n = "walk" THEN 2 ELSE 3]
    /\ stateObjects' = 3
    /\ current' = [name |-> "idle", id |-> 1]
    /\ setStateCalls' = setStateCalls + 1
    /\ requested' = "idle"
    /\ enterCount' = enterCount + 1
    /\ lastEnter' = [state |-> current', prev |-> current]
    /\ UNCHANGED <<keys, updates>>
    /\ UNCHANGED <<scene, rendererReady, targetSet, cleaned, disposed, animationId,
                   rafPending, rafIds, renders>>
    /\ UNCHANGED <<grassVars, runVars, windVars, loopVars, lodVars, mouseVars, charVars, camVars, inputVars>>

\* the rest of init() in the character scene, in the same turn: the model is
\* added, the camera target set, the callback registered, animate() called
SceneInitContinues ==
    /\ initPc = "loaded"
    /\ ticks < MaxTicks
    /\ initPc' = "done"
    /\ targetSet' = TRUE
    /\ callbacks' = Append(callbacks, Len(callbacks) + 1)
    /\ DoAnimate(callbacks')
    /\ UNCHANGED <<scene, rendererReady, cleaned, disposed>>
    /\ UNCHANGED <<grassVars, runVars, windVars, lodVars, camVars, inputVars>>

\* the browser runs the requested frame: animate()
FrameFires ==
    /\ rafPending # 0
    /\ initPc # "loaded"
    /\ ticks < MaxTicks
    /\ UNCHANGED <<scene, initPc, rendererReady, targetSet, cleaned, disposed, callbacks>>
    /\ DoAnimate(callbacks)
    /\ UNCHANGED <<grassVars, runVars, windVars, lodVars, camVars, inputVars>>

\* the cleanup function of the effect: listeners removed,
\* cancelAnimationFrame(animationId), renderer.dispose()
Cleanup ==
    /\ scene # "none"
    /\ initPc # "loaded"
    /\ ~cleaned
    /\ cleaned' = TRUE
    /\ disposed' = TRUE
    /\ rafPending' = IF animationId # 0 /\ rafPending = animationId THEN 0 ELSE rafPending
    /\ UNCHANGED <<scene, initPc, rendererReady, targetSet, animationId, rafIds, renders>>
    /\ UNCHANGED <<grassVars, runVars, windVars, loopVars, lodVars, animVars,
                   mouseVars, charVars, camVars, inputVars>>

NextScene ==
    \/ \E kind \in SceneKinds : Mount(kind)
    \/ RendererInitResolves
    \/ RendererInitRejects
    \/ CharacterLoadFinishes
    \/ SceneInitContinues
    \/ FrameFires
    \/ Cleanup
    \/ TimePasses

SpecScene == InitScene /\ [][NextScene]_vars

----------------------------------------------------------------------------
(* ThirdPersonCamera: orbit angles driven by the accumulated mouse delta *)

MaxCamUpdates == 3

Radius == 8000
MinPhi == 17453
MaxPhi == 139626
Sensitivity == 200
TargetOffsetY == 1500
Smoothing == 100

\* mouse movements of both signs, a few pixels to far beyond the whole range
CameraMovements == {<<40, -150>>, <<-25, 150>>, <<0, 100000>>, <<3, -100000>>}

Min(a, b) == IF a <= b THEN a ELSE b

\* mutant of ClampPhi: only the lower limit is applied
ClampPhiLowerOnly(p) == Max(MinPhi, p)

\* Math.max(this.minPhi, Math.min(this.maxPhi, this.phi))
ClampPhi(p) == Max(MinPhi, Min(MaxPhi, p))

\* updateCameraPosition(): spherical to cartesian around the target's chest
IdealPosition(ph, th) ==
    <<position[1] + Mul(Mul(Radius, Sin(ph)), Sin(th)),
      TargetOffsetY + Mul(Radius, Cos(ph)),
      position[2] + Mul(Mul(Radius, Sin(ph)), Cos(th))>>

\* 1.0 - Math.pow(1.0 - this.smoothing, delta * 60), the power by its
\* binomial series up to the second order (exponent e = delta * 60)
SmoothingT(dt) ==
    LET e == dt * 60
        first == Mul(e, Smoothing)
        second == Div(Mul(Mul(e, e - Scale), Mul(Smoothing, Smoothing)), 2)
    IN first - second

\* Vector3.lerp(v, t)
Lerp(a, b, t) == [i \in 1 .. 3 |-> a[i] + Mul(b[i] - a[i], t)]

InitCam ==
    /\ NoGrassSystem
    /\ NoRuns
    /\ NoWind
    /\ NoLoop
    /\ NoLod
    /\ NoAnim
    /\ NoMouse
    /\ NoChar
    /\ NoScene
    /\ NoCam
    /\ NoInput

\* setTarget({ target }): the camera is placed at once, without smoothing
SetTarget ==
    /\ target = "null"
    /\ target' = "model"
    /\ camera' = IdealPosition(phi, theta)
    /\ currentPosition' = camera'
    /\ UNCHANGED <<theta, phi, camUpdates>>
    /\ UNCHANGED <<grassVars, runVars, windVars, loopVars, lodVars, animVars,
                   mouseVars, charVars, sceneVars, inputVars>>

\* update({ delta })
CameraUpdate(dt) ==
    /\ camUpdates < MaxCamUpdates
    /\ camUpdates' = camUpdates + 1
    /\ IF target = "null"
       THEN UNCHANGED <<theta, phi, camera, currentPosition, mouseVars>>
       ELSE /\ DoGetMouseDelta
            /\ theta' = theta - mouseDelta[1] * Sensitivity
            /\ phi' = ClampPhi(phi - mouseDelta[2] * Sensitivity)
            /\ currentPosition' = Lerp(currentPosition, IdealPosition(phi', theta'),
                                       SmoothingT(dt))
            /\ camera' = currentPosition'
    /\ UNCHANGED target
    /\ UNCHANGED <<grassVars, runVars, windVars, loopVars, lodVars, animVars,
                   charVars, sceneVars, inputVars>>

NextCam ==
    \/ \E d \in CameraMovements : AddMouseDelta(d)
    \/ SetTarget
    \/ \E dt \in Deltas : CameraUpdate(dt)

SpecCam == InitCam /\ [][NextCam]_vars

----------------------------------------------------------------------------
(* InputManager.init and the key events of window *)

MaxInputInits == 3
MaxKeyEvents == 4

InitInput ==
    /\ NoGrassSystem
    /\ NoRuns
    /\ NoWind
    /\ NoLoop
    /\ NoLod
    /\ NoAnim
    /\ NoMouse
    /\ NoChar
    /\ NoScene
    /\ NoCam
    /\ NoInput

\* mutant of InputInit: no `initialized` guard, every call adds listeners
InputInitUnguarded ==
    /\ inputInitCalls < MaxInputInits
    /\ inputInitCalls' = inputInitCalls + 1
    /\ initialized' = TRUE
    /\ keydownListeners' = keydownListeners + 1
    /\ keyupListeners' = keyupListeners + 1
    /\ UNCHANGED <<keyEvents, lastEvent, sinceInit, keyOps>>
    /\ UNCHANGED <<grassVars, runVars, windVars, loopVars, lodVars, animVars, mouseVars, charVars, sceneVars, camVars>>

\* init(): returns at once when initialised, else sets the flag and adds
\* one keydown and one keyup listener
InputInit ==
    /\ inputInitCalls < MaxInputInits
    /\ inputInitCalls' = inputInitCalls + 1
    /\ IF initialized
       THEN UNCHANGED <<initialized, keydownListeners, keyupListeners>>
       ELSE /\ initialized' = TRUE
            /\ keydownListeners' = keydownListeners + 1
            /\ keyupListeners' = keyupListeners + 1
    /\ UNCHANGED <<keyEvents, lastEvent, sinceInit, keyOps>>
    /\ UNCHANGED <<grassVars, runVars, windVars, loopVars, lodVars, animVars, mouseVars, charVars, sceneVars, camVars>>

\* a keydown event on window: each registered keydown listener runs
\* `this.keys.add(e.code)`
KeyDownEvent(code) ==
    /\ keyEvents < MaxKeyEvents
    /\ keyEvents' = keyEvents + 1
    /\ lastEvent' = [lastEvent EXCEPT ![code] = "keydown"]
    /\ sinceInit' = IF inputInitCalls > 0
                    THEN [sinceInit EXCEPT ![code] = "keydown"] ELSE sinceInit
    /\ keyOps' = keydownListeners
    /\ keys' = IF keydownListeners > 0 THEN keys \cup {code} ELSE keys
    /\ UNCHANGED <<initialized, keydownListeners, keyupListeners, inputInitCalls>>
    /\ UNCHANGED <<states, stateObjects, current, setStateCalls, requested,
                   enterCount, lastEnter, updates>>
    /\ UNCHANGED <<grassVars, runVars, windVars, loopVars, lodVars, mouseVars, charVars, sceneVars, camVars>>

\* a keyup event on window: each registered keyup listener runs
\* `this.keys.delete(e.code)`
KeyUpEvent(code) ==
    /\ keyEvents < MaxKeyEvents
    /\ keyEvents' = keyEvents + 1
    /\ lastEvent' = [lastEvent EXCEPT ![code] = "keyup"]
    /\ sinceInit' = IF inputInitCalls > 0
                    THEN [sinceInit EXCEPT ![code] = "keyup"] ELSE sinceInit
    /\ keyOps' = keyupListeners
    /\ keys' = IF keyupListeners > 0 THEN keys \ {code} ELSE keys
    /\ UNCHANGED <<initialized, keydownListeners, keyupListeners, inputInitCalls>>
    /\ UNCHANGED <<states, stateObjects, current, setStateCalls, requested,
                   enterCount, lastEnter, updates>>
    /\ UNCHANGED <<grassVars, runVars, windVars, loopVars, lodVars, mouseVars, charVars, sceneVars, camVars>>

NextInput ==
    \/ InputInit
    \/ \E code \in EventCodes : KeyDownEvent(code)
    \/ \E code \in EventCodes : KeyUpEvent(code)

SpecInput == InitInput /\ [][NextInput]_vars

----------------------------------------------------------------------------
(* Claims *)

Placed == phase = "built" /\ passes >= 1

\* C1: once the placement pass has completed the buffer holds exactly count
\* records, slots 0 .. count-1, each assigned by the invocation of its own
\* index and by no other; before that no slot has a foreign writer.
C1_ExactlyNRecords ==
    phase = "built" =>
        /\ DOMAIN instanceBuffer = 0 .. count - 1
        /\ Cardinality(DOMAIN instanceBuffer) = count
        /\ \A s \in DOMAIN writers : writers[s] \subseteq {s}
        /\ passes >= 1 => \A s \in 0 .. count - 1 : writers[s] = {s}

C1_Witness == Placed /\ count >= 3 /\ fieldSize > 0

C3_OrderIndependent ==
    /\ (phase = "built" /\ running /\ dispatched = 1) =>
           \A s \in 0 .. count - 1 :
               instanceBuffer[s] = IF s \in pending THEN Zero
                                   ELSE ComputeInit(s, count, fieldSize)
    /\ Placed =>
           instanceBuffer = [s \in 0 .. count - 1 |-> ComputeInit(s, count, fieldSize)]

C3_Witness == running /\ dispatched = 1 /\ count >= 3 /\ pending = {0}

\* C4: a validly configured mesh is never rendered while the pass has not
\* completed and the buffer still holds zeroed records.
C4_NoRenderBeforePlacement ==
    ~ /\ phase = "built"
      /\ fieldSize > 0
      /\ frames > 0
      /\ passes = 0
      /\ \E s \in DOMAIN instanceBuffer : instanceBuffer[s] = Zero

\* C5: for count > 0 and fieldSize > 0 the placement pass is dispatched at
\* most once, and a rendered set has had exactly one completed pass.
C5_PlacementExactlyOnce ==
    (phase = "built" /\ count > 0 /\ fieldSize > 0) =>
        /\ dispatched <= 1
        /\ frames > 0 => passes = 1

\* C6: once the pass has completed no step changes the instance buffer or
\* the instance count; a frame changes only the elapsed time.
C6_BufferNeverRewritten ==
    [][Placed => (instanceBuffer' = instanceBuffer /\ count' = count)]_vars

C6_Witness == Placed /\ count >= 1 /\ frames >= 1 /\ time > 0

\* C7: construction with count < 0 or fieldSize <= 0 fails and leaves
\* nothing behind.
C7_ConfigurationRejected ==
    (phase # "none" /\ (count < 0 \/ fieldSize <= 0)) =>
        (phase = "failed" /\ instanceBuffer = <<>>)

\* C8 as stated: construction with count <= 0 raises no error and yields an
\* empty set.
C8_NonPositiveCountIsEmptySet ==
    (phase # "none" /\ count <= 0 /\ fieldSize > 0) =>
        (phase = "built" /\ DOMAIN instanceBuffer = {})

\* C8 amended: construction with count = 0 raises no error and yields an
\* empty set that init and frames never write to; count < 0 is refused.
C8_ZeroCountIsEmptySet ==
    /\ (phase # "none" /\ count = 0 /\ fieldSize > 0) =>
           /\ phase = "built"
           /\ DOMAIN instanceBuffer = {}
           /\ DOMAIN writers = {}
           /\ pending = {}
    /\ (phase # "none" /\ count < 0) => phase = "failed"

C8_Witness ==
    phase = "built" /\ count = 0 /\ fieldSize > 0 /\ passes >= 1 /\ frames >= 1

\* the centre of column or row k of a g x g grid over the origin-centred field
CellCentre(k, g, f) == ((2 * k + 1) * f * Scale) \div (2 * g) - (f * Scale) \div 2

\* C9: the position of instance i less its jitter is the centre of cell
\* (i mod G, floor(i / G)), G = ceil(sqrt(count)), of the origin-centred grid
\* (to the rounding of the fixed-point arithmetic).
C9_BaseIsCellCentre ==
    (Placed /\ count >= 1 /\ fieldSize > 0) =>
        LET g == CeilSqrt(count)
        IN \A i \in 0 .. count - 1 :
            /\ Abs(instanceBuffer[i].x - JitterX(i, count, fieldSize)
                    - CellCentre(i % g, g, fieldSize)) <= 2
            /\ Abs(instanceBuffer[i].z - JitterZ(i, count, fieldSize)
                    - CellCentre(i \div g, g, fieldSize)) <= 2

\* C10: both coordinates of every position lie in the origin-centred square
\* of side fieldSize extended by half a cell.
C10_WithinFieldBounds ==
    (Placed /\ count >= 1 /\ fieldSize > 0) =>
        \A i \in 0 .. count - 1 :
            /\ Abs(instanceBuffer[i].x)
                   <= (fieldSize * Scale) \div 2 + Spacing(count, fieldSize) \div 2
            /\ Abs(instanceBuffer[i].z)
                   <= (fieldSize * Scale) \div 2 + Spacing(count, fieldSize) \div 2

\* C11: the jitter of instance i, its position less its base position, is at
\* most half a cell of the G x G grid, G = ceil(sqrt(count)), on each axis
\* (to the rounding of the fixed-point arithmetic).
C11_JitterWithinHalfCell ==
    (Placed /\ count >= 1 /\ fieldSize > 0) =>
        LET g == CeilSqrt(count)
            halfCell == (fieldSize * Scale) \div (2 * g)
        IN \A i \in 0 .. count - 1 :
            /\ Abs(instanceBuffer[i].x
                    - Mul(GridX(i, count), Spacing(count, fieldSize))) <= halfCell + 2
            /\ Abs(instanceBuffer[i].z
                    - Mul(GridZ(i, count), Spacing(count, fieldSize))) <= halfCell + 2

\* C12: every stored rotation is in [0, 2*pi) and every stored height scale
\* in [hMin, hMax], also for the indices whose sin(i * k) is negative.
C12_RotationAndHeightInRange ==
    Placed =>
        \A i \in 0 .. count - 1 :
            /\ 0 <= instanceBuffer[i].rotation
            /\ instanceBuffer[i].rotation < (TwoPi * Scale) \div AngleScale
            /\ HeightMin <= instanceBuffer[i].height
            /\ instanceBuffer[i].height <= HeightMin + HeightRange

C12_Witness ==
    /\ Placed
    /\ \E i \in 0 .. count - 1 :
           /\ Sin(i * HashK1 * (AngleScale \div 10)) < 0
           /\ Sin(i * HashK2 * (AngleScale \div 10)) < 0
           /\ instanceBuffer[i].rotation > 0

Rendered(r) == BladeBuilt /\ shaderFrames[r] >= 1

\* the vertex k of the blade with the instance rotation and translation
\* applied and its height scaled, without any displacement
Upright(k) ==
    <<windInst.x + Mul(vertices[k][1], Cos(windInst.rotation * (AngleScale \div Scale))),
      Mul(vertices[k][2], windInst.height),
      windInst.z + Mul(vertices[k][1], Sin(windInst.rotation * (AngleScale \div Scale)))>>

\* C13: in every frame a vertex with local y = 0 has wind displacement 0 and
\* its world position is the instance position plus the rotated local x.
C13_BaseNotDisplaced ==
    Rendered(1) =>
        \A k \in DOMAIN vertices :
            vertices[k][2] = 0 =>
                /\ windOffset[1][k] = 0
                /\ worldPos[1][k] = Upright(k)
                /\ worldPos[1][k][2] = 0

C13_Witness ==
    /\ Rendered(1)
    /\ windStrength > 0
    /\ shaderTime[1] > 0
    /\ \E k \in DOMAIN vertices : windOffset[1][k] # 0

\* C14: with the actor strictly inside the interaction radius the total
\* displacement (wind plus push) of a vertex with local y = 0 is zero.
C14_BaseNotPushed ==
    (Rendered(1) /\ distToChar[1] < PushRadius) =>
        \A k \in DOMAIN vertices :
            vertices[k][2] = 0 => totalDisplacement[1][k] = <<0, 0>>

\* C15: with windStrength = 0 every vertex has wind displacement 0 and its
\* world position is that of the upright blade.
C15_NoWindNoDisplacement ==
    (Rendered(1) /\ windStrength = 0) =>
        \A k \in DOMAIN vertices :
            /\ windOffset[1][k] = 0
            /\ worldPos[1][k] = Upright(k)

C15_Witness ==
    Rendered(1) /\ windStrength = 0 /\ shaderTime[1] > 0 /\ segments >= 2

\* C16: the magnitude of the wind displacement of a vertex at height fraction
\* h is at most strength * h^2, hence at most strength.
C16_DisplacementBounded ==
    Rendered(1) =>
        \A k \in DOMAIN vertices :
            LET h == LocalT(vertices[k][2])
            IN /\ 0 <= h /\ h <= Scale
               /\ Abs(windOffset[1][k]) <= Mul(windStrength, Mul(h, h))
               /\ Abs(windOffset[1][k]) <= windStrength

C16_Witness ==
    /\ Rendered(1)
    /\ windStrength = 300
    /\ shaderTime[1] = 0
    /\ windOffset[1][Len(vertices)] # 0

\* C17: at every frame the push strength is 0 when the actor is at or beyond
\* the interaction radius, is never negative, and does not grow when the
\* actor-to-instance distance does not shrink from one frame to the next.
C17_PushVanishesAtRadius ==
    [][shaderFrames'[1] > shaderFrames[1] =>
          /\ distToChar'[1] >= PushRadius => pushStrength'[1] = 0
          /\ pushStrength'[1] >= 0
          /\ (shaderFrames[1] >= 1 /\ distToChar'[1] >= distToChar[1])
                 => pushStrength'[1] <= pushStrength[1]]_vars

C17_Witness ==
    Rendered(1) /\ distToChar[1] = PushRadius /\ pushStrength[1] = 0

C19_ElapsedSingleWriter ==
    /\ [](\A i, j \in DOMAIN calls :
             /\ i <= j => calls[i].elapsed <= calls[j].elapsed
             /\ calls[i].tick = calls[j].tick =>
                    calls[i].elapsed = calls[j].elapsed)
    /\ [][/\ elapsed' >= elapsed
          /\ elapsed' # elapsed => (tickPos = 0 /\ ticks' = ticks + 1)
          /\ tickPos >= 1 => elapsed' = elapsed]_vars

C19_Witness ==
    /\ \E i, j \in DOMAIN calls :
           calls[i].tick = calls[j].tick /\ calls[i].cb # calls[j].cb
    /\ \E i, j \in DOMAIN calls : calls[i].elapsed < calls[j].elapsed
    /\ tickPos >= 2
    /\ now > loopClock.oldTime

\* vertex number n (from 0) of the geometry
Vertex(n) == vertices[n + 1]

\* twice the signed area of triangle number t (from 0) in the blade plane
Orientation(t) ==
    LET a == Vertex(indices[3 * t + 1])
        b == Vertex(indices[3 * t + 2])
        c == Vertex(indices[3 * t + 3])
    IN (b[1] - a[1]) * (c[2] - a[2]) - (b[2] - a[2]) * (c[1] - a[1])

\* C20: the blade built for S segments has S+1 cross-sections of two
\* vertices each, S quads of two triangles each (6*S indices), every index
\* names an existing vertex and every triangle has the same orientation.
C20_BladeTopology ==
    BladeBuilt =>
        /\ Len(vertices) = 2 * (segments + 1)
        /\ Len(uvs) = 2 * (segments + 1)
        /\ Len(indices) = 6 * segments
        /\ \A i \in 0 .. segments :
               /\ Vertex(2 * i)[2] = Vertex(2 * i + 1)[2]
               /\ i > 0 => Vertex(2 * i)[2] > Vertex(2 * i - 1)[2]
        /\ \A n \in DOMAIN indices :
               indices[n] >= 0 /\ indices[n] <= Len(vertices) - 1
        /\ \A t \in 0 .. 2 * segments - 1 : Orientation(t) > 0
        /\ \A q \in 0 .. segments - 1 :
               {indices[6 * q + n] : n \in 1 .. 6}
                   = {2 * q, 2 * q + 1, 2 * q + 2, 2 * q + 3}

C20_Witness == BladeBuilt /\ segments >= 2 /\ Len(indices) = 6 * segments

\* half-width of cross-section i (from 0) of the geometry built
HalfWidthOf(i) == Vertex(2 * i + 1)[1]

\* C21: both vertices of cross-section i carry UV.v = i / S (0 at the base,
\* 1 at the tip), and the half-width of a cross-section is positive and not
\* larger than the half-width of the cross-section below it.
C21_UvAndTaper ==
    BladeBuilt =>
        \A i \in 0 .. segments :
            /\ uvs[2 * i + 1][2] = uvs[2 * i + 2][2]
            /\ uvs[2 * i + 1][2] * segments <= i * Scale
            /\ uvs[2 * i + 1][2] * segments > i * Scale - segments
            /\ i = 0 => uvs[2 * i + 1][2] = 0
            /\ i = segments => uvs[2 * i + 1][2] = Scale
            /\ HalfWidthOf(i) > 0
            /\ Vertex(2 * i)[1] = -HalfWidthOf(i)
            /\ i < segments => HalfWidthOf(i + 1) <= HalfWidthOf(i)

C21_Witness ==
    /\ BladeBuilt
    /\ segments = 3
    /\ HalfWidthOf(segments) < HalfWidthOf(0)

\* C22: after every frame exactly one of the two detail levels is visible,
\* the high one iff the camera is strictly nearer to the tile centre than the
\* threshold, the low one iff it is at the threshold or farther, whatever
\* was selected before the frame.
C22_ExactlyOneDetailLevel ==
    /\ [](lodFrames >= 1 =>
             /\ highVisible # lowVisible
             /\ highVisible <=> distToCamera < LodThreshold
             /\ lowVisible <=> distToCamera >= LodThreshold)
    /\ [][lodFrames' > lodFrames =>
             /\ distToCamera' = DistanceTo(cameraPosition, grassCenter)
             /\ highVisible' <=> DistanceTo(cameraPosition, grassCenter) < LodThreshold
             /\ lowVisible' <=> ~highVisible']_vars

C22_Witness ==
    /\ lodFrames >= 2
    /\ lodPrev
    /\ distToCamera = LodThreshold
    /\ lowVisible
    /\ ~highVisible

\* time offsets, in thousandths of a second, around the time of a frame
TimeSteps == {-50, -10, -1, 1, 10, 50}

\* accuracy of a fixed-point displacement, in thousandths
Rounding == 3

\* the largest change of the displacement of vertex k over a time step e:
\* the wave has slope at most TimeFactor
StepBound(k, e) ==
    Mul(TimeFactor * Abs(e),
        Mul(windStrength, Mul(LocalT(vertices[k][2]), LocalT(vertices[k][2]))))
    + Rounding

\* C23: the wind displacement is continuous in elapsed time: around the time
\* of every frame, and from every frame to the next, the displacement of a
\* vertex changes by at most TimeFactor * |e| * strength * h^2 over a time
\* step e, so it converges as e tends to 0 and never jumps.
C23_ContinuousInTime ==
    /\ [](Rendered(1) =>
             \A k \in DOMAIN vertices, e \in TimeSteps :
                 Seconds(shaderTime[1]) + e >= 0 =>
                     Abs(WindOffset(windInst, vertices[k][2], windStrength,
                                    Seconds(shaderTime[1]) + e)
                         - windOffset[1][k]) <= StepBound(k, e))
    /\ [][(Rendered(1) /\ shaderFrames'[1] > shaderFrames[1]) =>
             \A k \in DOMAIN vertices :
                 Abs(windOffset'[1][k] - windOffset[1][k])
                     <= StepBound(k, Seconds(shaderTime'[1]) - Seconds(shaderTime[1]))]_vars

C23_Witness ==
    /\ Rendered(1)
    /\ shaderFrames[1] >= 2
    /\ shaderTime[1] >= 2
    /\ windStrength = 1000
    /\ \E k \in DOMAIN vertices :
           windOffset[1][k] #
               WindOffset(windInst, vertices[k][2], windStrength, Seconds(shaderTime[1]) - 50)

\* idle, walk and sprint are registered and a state is current
Loaded == (\A n \in StateNames : states[n] # 0) /\ current # Null

\* the state the input asks for
InputState ==
    IF ~IsMoving THEN "idle" ELSE IF IsSprinting THEN "sprint" ELSE "walk"

\* C24: with idle, walk and sprint registered and a current state set, one
\* update leaves the machine in the state the keys held during that update
\* ask for, from any of the three states: idle without a movement key, sprint
\* with a movement key and sprinting, walk with a movement key otherwise.
C24_UpdateFollowsInput ==
    [][(Loaded /\ updates' > updates) => current'.name = InputState]_vars

C24_Witness ==
    /\ Loaded
    /\ updates >= 2
    /\ current.name = "sprint"
    /\ lastEnter.prev.name = "walk"
    /\ {"KeyW", "ShiftLeft"} \subseteq keys

\* the invocations made by tick number t, in the order they were made
CallsOfTick(t) == SelectSeq(calls, LAMBDA c : c.tick = t)

\* C26: a tick invokes the callbacks that were registered when it started,
\* each exactly once and in registration order, all with the (delta, elapsed)
\* pair read at the start of the tick; a callback registered after the tick
\* started is not invoked by it.
C26_TickCallsEachOnce ==
    /\ [](ticks >= 1 =>
             LET done == IF tickPos = 0 THEN tickLen ELSE tickPos - 1
                 cs == CallsOfTick(ticks)
             IN /\ tickLen <= Len(callbacks)
                /\ Len(cs) = done
                /\ \A i \in 1 .. Len(cs) :
                       /\ cs[i].cb = callbacks[i]
                       /\ cs[i].cb <= tickLen
                       /\ cs[i].delta = delta
                       /\ cs[i].elapsed = elapsed)
    /\ [][/\ ticks' > ticks => (tickLen' = Len(callbacks) /\ calls' = calls)
          /\ ticks' = ticks =>
                 (delta' = delta /\ elapsed' = elapsed /\ tickLen' = tickLen)
          /\ Len(calls') >= Len(calls)
          /\ SubSeq(calls', 1, Len(calls)) = calls]_vars

C26_Witness ==
    /\ ticks >= 2
    /\ tickPos = 1
    /\ tickLen = 1
    /\ Len(callbacks) = 2
    /\ Len(CallsOfTick(ticks - 1)) = 1

\* C28: a setState call changes current only for a registered name whose
\* state object is not the current one, and then makes exactly one enter
\* call, on the new state, with prev the state that was current before the
\* call (Null the first time); for an unregistered name or the current state
\* it makes no enter call and leaves current unchanged; nothing else changes
\* current, and update with no current state calls nothing.
C28_SetStateEntersOnce ==
    [][/\ setStateCalls' > setStateCalls =>
            IF StatesGet(requested') # Null /\ StatesGet(requested') # current
            THEN /\ current' = StatesGet(requested')
                 /\ enterCount' = enterCount + 1
                 /\ lastEnter' = [state |-> current', prev |-> current]
            ELSE /\ current' = current
                 /\ enterCount' = enterCount
                 /\ lastEnter' = lastEnter
       /\ setStateCalls' = setStateCalls =>
            (current' = current /\ enterCount' = enterCount /\ lastEnter' = lastEnter)
       /\ (updates' > updates /\ current = Null) =>
            (setStateCalls' = setStateCalls /\ current' = Null)]_vars

C28_Witness ==
    /\ enterCount >= 2
    /\ setStateCalls > enterCount
    /\ requested = "jump"
    /\ lastEnter.prev # Null
    /\ current = lastEnter.state
    /\ updates >= 1

\* C30: every getMouseDelta returns the sum of the deltas added since the
\* previous getMouseDelta and zeroes the accumulator, and at all times the
\* sum of the deltas returned plus the accumulator is the sum of the deltas
\* added.
C30_MouseDeltaConserved ==
    /\ [](Plus(returnedTotal, mouseDelta) = addedTotal /\ mouseDelta = addedSince)
    /\ [][getCalls' > getCalls =>
             /\ lastReturned' = addedSince
             /\ mouseDelta' = <<0, 0>>
             /\ returnedTotal' = Plus(returnedTotal, lastReturned')]_vars

C30_Witness ==
    /\ getCalls >= 2
    /\ addCalls >= 3
    /\ returnedTotal # <<0, 0>>
    /\ lastReturned # returnedTotal
    /\ lastReturned # <<0, 0>>
    /\ mouseDelta # <<0, 0>>

\* C29: in every frame of Character.update with a positive delta the
\* position changes if and only if the animation state after the frame is
\* walk or sprint, whatever keys are held.
C29_AnimationMatchesMovement ==
    [][(charFrames' > charFrames /\ charDelta' > 0) =>
          (position' # position <=> current'.name \in {"walk", "sprint"})]_vars

\* C25: a tick of the game loop and a render happen only once renderer.init()
\* has resolved and the initialisation has run to its end, which in the
\* character scene includes the character load (a current animation state)
\* and the camera target.
C25_RenderAfterInit ==
    [][(ticks' > ticks \/ renders' > renders) =>
          /\ rendererReady'
          /\ initPc' = "done"
          /\ scene = "character" => (targetSet' /\ current # Null)]_vars

C25_Witness ==
    /\ scene = "character"
    /\ renders >= 2
    /\ ticks >= 2
    /\ ~cleaned

\* C27: once the cleanup function has run there is no further game-loop
\* tick and no further render.
C27_NothingAfterCleanup ==
    [][(ticks' > ticks \/ renders' > renders) => ~cleaned]_vars

\* C31: in the initial state and after every ThirdPersonCamera.update the
\* vertical angle lies in [minPhi, maxPhi], whatever mouse deltas were
\* accumulated; an update without a target changes neither the angles nor
\* the camera and leaves the accumulated mouse delta unread.
C31_PhiClamped ==
    /\ [](MinPhi <= phi /\ phi <= MaxPhi)
    /\ [][(camUpdates' > camUpdates /\ target = "null") =>
             /\ UNCHANGED <<theta, phi, camera, currentPosition>>
             /\ UNCHANGED <<mouseDelta, getCalls>>]_vars

C31_Witness ==
    /\ target = "model"
    /\ camUpdates > getCalls
    /\ getCalls = 1
    /\ lastReturned = addedTotal
    /\ lastReturned[2] >= 100000
    /\ phi = MinPhi

\* the codes whose last event, in the given history, was keydown
DownIn(history) == {c \in EventCodes : history[c] = "keydown"}

\* C32 as stated: once init has been called, however often, there is one
\* keydown and one keyup listener; every key event adds or removes its code
\* exactly once; the key set always equals the set of codes whose last event
\* was keydown.
C32_InitIdempotent ==
    /\ [](inputInitCalls > 0 => keydownListeners = 1 /\ keyupListeners = 1)
    /\ [][keyEvents' > keyEvents => keyOps' = 1]_vars
    /\ [](keys = DownIn(lastEvent))

\* C32, amended: once init has been called, however often, there is one
\* keydown and one keyup listener; every key event after the first init
\* call adds or removes its code exactly once; the key set always equals
\* the set of codes whose last event since the first init call was keydown
\* (events before it are not heard).
C32_InitIdempotentSinceInit ==
    /\ [](inputInitCalls > 0 => keydownListeners = 1 /\ keyupListeners = 1)
    /\ [][(keyEvents' > keyEvents /\ inputInitCalls > 0) => keyOps' = 1]_vars
    /\ [](keys = DownIn(sinceInit))

C32_Witness ==
    /\ inputInitCalls >= 2
    /\ keyEvents >= 3
    /\ lastEvent["KeyW"] = "keydown"
    /\ sinceInit["KeyW"] = "none"
    /\ sinceInit["ShiftLeft"] = "keyup"
    /\ keys = {}

====
